---- MODULE Spec2Model ----
(***************************************************************************)
(* Model of the damage-analysis pipeline of hello_world:                   *)
(*   services/bedrock_service.py           BedrockService (retry engine)   *)
(*   services/rekognition_service.py       RekognitionService.detect_damage*)
(*   services/s3_service.py                S3Service                       *)
(*   services/multiimagedamage_analyzer.py process_single_image            *)
(* Strings that the code inspects character by character (label names) are *)
(* sequences of one-character strings; object keys are sequences of path   *)
(* segments ('/'-separated), a segment being a sequence of name tokens.    *)
(***************************************************************************)
EXTENDS Integers, Sequences, FiniteSets, TLC

VARIABLES
    max_retries,     \* BedrockService.max_retries
    base_delay,      \* BedrockService.base_delay
    source_key,      \* process_single_image argument
    output_bucket,   \* process_single_image argument (None, '' or a bucket)
    store,           \* the object store: [bucket, key] -> content
    pc,              \* position inside process_single_image
    gen_pc,          \* position inside generate_report / _invoke_bedrock_model
    image_bytes,     \* local of process_single_image, argument of generate_report
    damage_labels,   \* local of process_single_image, argument of generate_report
    attempt,         \* loop variable of _invoke_bedrock_model
    calls,           \* log of the collaborator calls and sleeps made so far
    report,          \* local of process_single_image
    report_key,      \* local of process_single_image (may be unbound)
    upload_success,  \* local of process_single_image
    move_success,    \* local of process_single_image
    result,          \* value returned by process_single_image
    error,           \* exception raised out of the call
    labels_response, \* response['Labels'] of detect_damage, until generate_report is entered
    caller,          \* who called process_single_image: "direct" or "lambda_handler"
    response,        \* value returned by lambda_handler
    other            \* the locals of a second invocation that is not running now

vars == <<max_retries, base_delay, source_key, output_bucket, store, pc, gen_pc,
          image_bytes, damage_labels, attempt, calls, report, report_key,
          upload_success, move_success, result, error, labels_response,
          caller, response, other>>

(***************************************************************************)
(* Bounds of the model.                                                    *)
(***************************************************************************)
MaxRetriesBound == 3
MaxBaseDelay == 2
MaxLabels == 2
MaxMoves == 3

\* The code never makes more than max_retries <= MaxRetriesBound calls of
\* invoke_model in one generate_report call; this cap is never reached by it
\* and only keeps a retry loop that fails to advance finite.
MaxInvocations == MaxRetriesBound + 1

(***************************************************************************)
(* Python values.                                                          *)
(***************************************************************************)
None == "<None>"            \* Python's None where a str is expected
EmptyBytes == ""            \* b''
EmptyText == ""             \* ''
NoneKey == << <<"<None>">> >>        \* None where a key is expected
UnboundKey == << <<"<unbound>">> >>  \* a local name that was never assigned
EmptyKey == <<>>                     \* the key ''

Truthy(v) == v # None /\ v # ""

NoError == [type |-> "None"]
NoResponse == [statusCode |-> 0]      \* lambda_handler has not returned
NoInvocation == [pc |-> "none"]       \* there is no second invocation

RECURSIVE Pow(_, _)
Pow(b, e) == IF e = 0 THEN 1 ELSE b * Pow(b, e - 1)

(***************************************************************************)
(* Label names and str operations on them.                                 *)
(***************************************************************************)
UpperCase == <<"A","B","C","D","E","F","G","H","I","J","K","L","M",
               "N","O","P","Q","R","S","T","U","V","W","X","Y","Z">>
LowerCase == <<"a","b","c","d","e","f","g","h","i","j","k","l","m",
               "n","o","p","q","r","s","t","u","v","w","x","y","z">>

lower_char(c) ==
    IF \E i \in 1..Len(UpperCase) : UpperCase[i] = c
    THEN LowerCase[CHOOSE i \in 1..Len(UpperCase) : UpperCase[i] = c]
    ELSE c

\* str.lower()
lower(s) == [i \in 1..Len(s) |-> lower_char(s[i])]

\* sub in s
contains(sub, s) ==
    \E i \in 0..(Len(s) - Len(sub)) : SubSeq(s, i + 1, i + Len(sub)) = sub

CarDamage == <<"C","a","r"," ","D","a","m","a","g","e">>
Vehicle   == <<"V","e","h","i","c","l","e">>
Rust      == <<"R","u","s","t">>
DENT      == <<"D","E","N","T">>

\* The labels the labeler may return (Confidence >= MinConfidence = 70).
Labels ==
    { [Name |-> CarDamage, Confidence |-> 92],
      [Name |-> Vehicle,   Confidence |-> 88],
      [Name |-> Rust,      Confidence |-> 71],
      [Name |-> DENT,      Confidence |-> 75] }

RECURSIVE SeqsUpTo(_, _)
SeqsUpTo(S, n) ==
    IF n = 0 THEN { <<>> }
    ELSE LET shorter == SeqsUpTo(S, n - 1)
         IN  shorter \cup { Append(q, x) : q \in shorter, x \in S }

\* response['Labels'] of detect_labels
LabelResponses == SeqsUpTo(Labels, MaxLabels)

\* RekognitionService.damage_keywords, the taxonomy of damage-indicating
\* terms (used by detect_damage1, not by detect_damage).
damage_keywords ==
    <<
       <<"d","a","m","a","g","e">>,
       <<"c","r","a","c","k">>,
       <<"s","c","r","a","t","c","h">>,
       <<"d","e","n","t">>,
       <<"b","r","o","k","e","n">>,
       <<"c","h","i","p">>,
       <<"s","p","l","i","t">>,
       <<"t","e","a","r">>,
       <<"p","u","n","c","t","u","r","e">>,
       <<"g","o","u","g","e">>,
       <<"r","u","p","t","u","r","e">>,
       <<"f","i","s","s","u","r","e">>,
       <<"f","r","a","c","t","u","r","e">>,
       <<"d","e","s","t","r","o","y","e","d">>,
       <<"r","u","s","t">>,
       <<"c","o","r","r","o","s","i","o","n">>,
       <<"w","e","a","r">>,
       <<"d","e","t","e","r","i","o","r","a","t","i","o","n">>,
       <<"d","e","g","r","a","d","a","t","i","o","n">>,
       <<"e","r","o","s","i","o","n">>,
       <<"s","t","a","i","n">>,
       <<"d","i","s","c","o","l","o","r","a","t","i","o","n">>,
       <<"p","e","e","l","i","n","g">>,
       <<"c","h","i","p","p","e","d"," ","p","a","i","n","t">>,
       <<"s","u","r","f","a","c","e"," ","d","a","m","a","g","e">>,
       <<"d","e","f","o","r","m","a","t","i","o","n">>,
       <<"w","a","r","p","e","d">>,
       <<"b","e","n","t">>,
       <<"m","i","s","a","l","i","g","n","e","d">>,
       <<"c","o","l","l","a","p","s","e","d">>,
       <<"b","u","c","k","l","e","d">>,
       <<"t","w","i","s","t","e","d">>,
       <<"s","t","r","u","c","t","u","r","a","l"," ","f","a","i","l","u","r","e">>,
       <<"c","o","m","p","r","o","m","i","s","e","d">>,
       <<"s","h","a","t","t","e","r","e","d">>,
       <<"c","r","a","c","k","e","d"," ","g","l","a","s","s">>,
       <<"m","e","t","a","l"," ","f","a","t","i","g","u","e">>,
       <<"m","a","t","e","r","i","a","l"," ","f","a","i","l","u","r","e">>,
       <<"s","t","r","u","c","t","u","r","a","l"," ","w","e","a","k","n","e","s","s">>,
       <<"f","r","a","g","m","e","n","t","e","d">>,
       <<"i","m","p","a","c","t">>,
       <<"c","o","l","l","i","s","i","o","n">>,
       <<"a","c","c","i","d","e","n","t">>,
       <<"t","r","a","u","m","a">>,
       <<"s","t","r","e","s","s">>,
       <<"s","t","r","a","i","n">>,
       <<"m","e","c","h","a","n","i","c","a","l"," ","f","a","i","l","u","r","e">>,
       <<"s","t","r","u","c","t","u","r","a","l"," ","c","o","m","p","r","o","m","i","s","e">> >>

\* The inline term list of detect_damage.
damage_terms ==
    << <<"d","a","m","a","g","e">>,
       <<"d","e","n","t">>,
       <<"s","c","r","a","t","c","h">>,
       <<"b","r","o","k","e","n">>,
       <<"c","r","a","c","k">> >>

is_damage_label_any(label) == TRUE

\* any(term in label['Name'].lower() for term in [...])
is_damage_label(label) ==
    \E t \in 1..Len(damage_terms) : contains(damage_terms[t], lower(label.Name))

\* damage_labels = [label for label in response['Labels'] if any(...)]
filter_damage_labels(labels) == SelectSeq(labels, is_damage_label)

(***************************************************************************)
(* The model invoker (client.invoke_model) and its outcomes.               *)
(***************************************************************************)
Absent == "<absent>"        \* a key the response body does not have
Texts == { EmptyText, "report A" }

\* json.loads(response.get('body').read()): the text under
\* messages[0].content[0].text and under content[0].text, when present.
ResponseBodies == [messages : Texts \cup {Absent}, content : Texts \cup {Absent}]

ClientErrorCodes == { "ThrottlingException", "ValidationException" }

ClientError(code, n) == [type |-> "ClientError", code |-> code, at |-> n]
LocalError(n) == [type |-> "RuntimeError", code |-> "", at |-> n]
ValueError(msg) == [type |-> "ValueError", msg |-> msg, cause |-> NoError]
NameError(msg) == [type |-> "UnboundLocalError", msg |-> msg, cause |-> NoError]
BedrockServiceError(msg, e) ==
    [type |-> "BedrockServiceError", msg |-> msg, cause |-> e]

InvokeEvent(outcome) == [op |-> "invoke_model", outcome |-> outcome]
SleepEvent(d) == [op |-> "sleep", delay |-> d]

Invocations(log) == SelectSeq(log, LAMBDA ev : ev.op = "invoke_model")
Sleeps(log) == SelectSeq(log, LAMBDA ev : ev.op = "sleep")

(***************************************************************************)
(* BedrockService._invoke_bedrock_model                                    *)
(***************************************************************************)
in_range_inclusive(a) == a <= max_retries

\* for attempt in range(self.max_retries)
in_range(a) == a < max_retries

next_attempt_same(a) == a

\* the loop variable of the next iteration
next_attempt(a) == a + 1

is_last_attempt_late(a) == a = max_retries

\* attempt == self.max_retries - 1
is_last_attempt(a) == a = max_retries - 1

\* self.base_delay ** attempt
backoff_delay(a) == Pow(base_delay, a)

caught_first(e) ==
    LET raised == SelectSeq(calls, LAMBDA ev : ev.op = "invoke_model" /\ ev.outcome.kind = "raise")
    IN  IF raised # << >> THEN raised[1].outcome.err ELSE e

\* the exception e bound by the except clause that is being handled
caught(e) == e

\* 'messages' in response_body / 'content' in response_body
has_known_envelope(body) == body.messages # Absent \/ body.content # Absent

parse_response_content_first(body) ==
    IF body.content # Absent THEN body.content ELSE body.messages

parse_response(body) ==
    IF body.messages # Absent THEN body.messages ELSE body.content

gives_up_on_local(e, a) == is_last_attempt(a) \/ e.type = "RuntimeError"

\* does the except clause handling e re-raise (TRUE) or sleep and retry
gives_up(e, a) == is_last_attempt(a)

\* The two except clauses: raise on the last attempt, else sleep and go on.
RetryOrFail(outcome, e, msg) ==
    IF gives_up(e, attempt)
    THEN /\ calls' = Append(calls, InvokeEvent(outcome))
         /\ error' = BedrockServiceError(msg, caught(e))
         /\ gen_pc' = "raised"
         /\ pc' = "raised"
         /\ UNCHANGED attempt
    ELSE /\ calls' = calls \o <<InvokeEvent(outcome), SleepEvent(backoff_delay(attempt))>>
         /\ attempt' = next_attempt(attempt)
         /\ UNCHANGED <<error, gen_pc, pc>>

gen_frame == <<max_retries, base_delay, source_key, output_bucket, store,
               image_bytes, damage_labels, report_key, upload_success,
               move_success, result, caller, response, other>>

CanInvoke ==
    /\ gen_pc = "invoke"
    /\ in_range(attempt)
    /\ Len(Invocations(calls)) < MaxInvocations

\* invoke_model answers with a known envelope: return the text.
InvokeReturnsText ==
    /\ CanInvoke
    /\ \E body \in ResponseBodies :
          /\ has_known_envelope(body)
          /\ calls' = Append(calls, InvokeEvent([kind |-> "response", body |-> body]))
          /\ report' = parse_response(body)
    /\ gen_pc' = "returned"
    /\ pc' = "save"
    /\ UNCHANGED <<attempt, error>>
    /\ UNCHANGED labels_response
    /\ UNCHANGED gen_frame

\* invoke_model answers with neither envelope: BedrockServiceError is raised
\* inside the try block and is handled by `except Exception`.
InvokeUnexpectedStructure ==
    /\ CanInvoke
    /\ \E body \in ResponseBodies :
          /\ ~has_known_envelope(body)
          /\ RetryOrFail([kind |-> "response", body |-> body],
                         BedrockServiceError("Unexpected response structure from Bedrock", NoError),
                         "Unexpected error")
    /\ UNCHANGED report
    /\ UNCHANGED labels_response
    /\ UNCHANGED gen_frame

\* invoke_model raises botocore's ClientError: `except ClientError`.
InvokeClientError ==
    /\ CanInvoke
    /\ \E code \in ClientErrorCodes :
          LET e == ClientError(code, Len(Invocations(calls)) + 1)
          IN  RetryOrFail([kind |-> "raise", err |-> e], e,
                          "Failed to invoke Bedrock model")
    /\ UNCHANGED report
    /\ UNCHANGED labels_response
    /\ UNCHANGED gen_frame

\* invoke_model (or reading the body) raises anything else: `except Exception`.
InvokeLocalError ==
    /\ CanInvoke
    /\ LET e == LocalError(Len(Invocations(calls)) + 1)
       IN  RetryOrFail([kind |-> "raise", err |-> e], e, "Unexpected error")
    /\ UNCHANGED report
    /\ UNCHANGED labels_response
    /\ UNCHANGED gen_frame

\* The for loop runs out of iterations: the function ends without a return
\* statement, so the call evaluates to None.
LoopFallsThrough ==
    /\ gen_pc = "invoke"
    /\ ~in_range(attempt)
    /\ report' = None
    /\ gen_pc' = "returned"
    /\ pc' = "save"
    /\ UNCHANGED <<attempt, calls, error>>
    /\ UNCHANGED labels_response
    /\ UNCHANGED gen_frame

(***************************************************************************)
(* BedrockService.generate_report: validation, then _invoke_bedrock_model. *)
(* _prepare_prompt and _prepare_request_body cannot fail on the values     *)
(* that pass the validation (bytes, labels with a Name, non-empty prompt). *)
(***************************************************************************)
labels_rejected(labels) == labels = <<>>      \* not damage_labels

GenerateReport ==
    /\ pc = "generate"
    /\ gen_pc = "idle"
    /\ IF image_bytes = EmptyBytes
       THEN /\ error' = ValueError("Image bytes cannot be empty")
            /\ gen_pc' = "raised"
            /\ pc' = "raised"
       ELSE IF labels_rejected(damage_labels)
       THEN /\ error' = ValueError("Damage labels cannot be empty")
            /\ gen_pc' = "raised"
            /\ pc' = "raised"
       ELSE /\ gen_pc' = "invoke"
            /\ UNCHANGED <<error, pc>>
    /\ attempt' = 0
    /\ UNCHANGED <<calls, report>>
    /\ labels_response' = << >>
    /\ UNCHANGED gen_frame

GenNext ==
    \/ GenerateReport
    \/ InvokeReturnsText
    \/ InvokeUnexpectedStructure
    \/ InvokeClientError
    \/ InvokeLocalError
    \/ LoopFallsThrough

ImageBytes == { EmptyBytes, "JPEG-1" }

SourceKeys ==
    { << <<"damage_images">>, <<"car1.jpg">> >>,
      << <<"uploads">>, <<"door.png">> >> }
OutputBuckets == { None, "", "damage-analyzer1124-test" }

\* A direct call generate_report(image_bytes, damage_labels) on a service
\* constructed with any max_retries and base_delay.
GenInit ==
    /\ max_retries \in 0..MaxRetriesBound
    /\ base_delay \in 1..MaxBaseDelay
    /\ image_bytes \in ImageBytes
    /\ damage_labels \in { filter_damage_labels(r) : r \in LabelResponses }
    /\ pc = "generate"
    /\ gen_pc = "idle"
    /\ source_key \in SourceKeys
    /\ output_bucket = None
    /\ store = << >>
    /\ attempt = 0
    /\ calls = << >>
    /\ report = None
    /\ report_key = UnboundKey
    /\ upload_success = FALSE
    /\ move_success = FALSE
    /\ result = [status |-> "none"]
    /\ error = NoError
    /\ labels_response = << >>
    /\ caller = "direct"
    /\ response = NoResponse
    /\ other = NoInvocation

GenSpec == GenInit /\ [][GenNext]_vars

\* The call runs on one thread that is never suspended for ever.
FairGenSpec == GenSpec /\ WF_vars(GenNext)

(***************************************************************************)
(* The object store behind S3Service.  Contents are byte strings; the      *)
(* reports written are ASCII, whose UTF-8 encoding is the same characters. *)
(***************************************************************************)
Obj(b, k) == [bucket |-> b, key |-> k]

Present(st, b, k) == Obj(b, k) \in DOMAIN st

PutObject(st, b, k, c) ==
    [o \in (DOMAIN st) \cup {Obj(b, k)} |-> IF o = Obj(b, k) THEN c ELSE st[o]]

DeleteObject(st, b, k) == [o \in (DOMAIN st) \ {Obj(b, k)} |-> st[o]]

CopyObjectIfAbsent(st, b, src, dst) ==
    IF Present(st, b, dst) THEN st ELSE PutObject(st, b, dst, st[Obj(b, src)])

\* copy_object(Bucket=b, CopySource={'Bucket': b, 'Key': src}, Key=dst)
CopyObject(st, b, src, dst) == PutObject(st, b, dst, st[Obj(b, src)])

\* S3 answers a copy_object of an object onto itself that changes neither
\* metadata nor storage class with InvalidRequest: such a call only fails.
copy_accepted(src, dst) == src # dst

S3Error(code) == [type |-> "ClientError", code |-> code, at |-> 0]

S3Event(op, b, k, ok) == [op |-> op, bucket |-> b, key |-> k, ok |-> ok]

\* os.getenv('SOURCE_BUCKET', 'damage-analyzer1124-test')
source_bucket == "damage-analyzer1124-test"

\* datetime.now().strftime('%Y%m%d_%H%M%S')
Timestamps == { "20240101_120000" }

\* source_key.split('/')[-1]
basename(key) == key[Len(key)]

\* f"reports/{source_key.split('/')[-1]}_{timestamp}.txt"
make_report_key(key, ts) == << <<"reports">>, basename(key) \o <<"_", ts, ".txt">> >>

make_processed_key_sibling(key) ==
    SubSeq(key, 1, Len(key) - 1) \o << <<"processed">>, basename(key) >>

\* f"damage_images/processed/{filename}"
make_processed_key(key) == << <<"damage_images">>, <<"processed">>, basename(key) >>

pipe_frame == <<max_retries, base_delay, source_key, output_bucket, caller, response,
                other>>
gen_locals == <<gen_pc, attempt>>

(***************************************************************************)
(* MultiImageDamageAnalyzer.process_single_image, step by step.            *)
(***************************************************************************)
payload_never_rejected(body) == FALSE

\* not image_bytes
payload_rejected(body) == body = EmptyBytes

\* read_image returns the object's bytes; an empty payload raises ValueError.
ReadImage ==
    /\ pc = "read"
    /\ Present(store, source_bucket, source_key)
    /\ calls' = Append(calls, S3Event("get_object", source_bucket, source_key, TRUE))
    /\ LET body == store[Obj(source_bucket, source_key)]
       IN  IF payload_rejected(body)
           THEN /\ error' = ValueError("Failed to read image")
                /\ pc' = "raised"
                /\ UNCHANGED image_bytes
           ELSE /\ image_bytes' = body
                /\ pc' = "detect"
                /\ UNCHANGED error
    /\ UNCHANGED <<store, damage_labels, report, report_key, upload_success,
                   move_success, result>>
    /\ UNCHANGED labels_response
    /\ UNCHANGED pipe_frame
    /\ UNCHANGED gen_locals

\* get_object raises (no such key, access denied, transient I/O): read_image
\* logs and re-raises, and so does process_single_image.
ReadImageFails ==
    /\ pc = "read"
    /\ \E code \in IF Present(store, source_bucket, source_key)
                   THEN {"AccessDenied"} ELSE {"NoSuchKey"} :
          error' = S3Error(code)
    /\ calls' = Append(calls, S3Event("get_object", source_bucket, source_key, FALSE))
    /\ pc' = "raised"
    /\ UNCHANGED <<store, image_bytes, damage_labels, report, report_key,
                   upload_success, move_success, result>>
    /\ UNCHANGED labels_response
    /\ UNCHANGED pipe_frame
    /\ UNCHANGED gen_locals

DetectEventBytes(ok) ==
    [op |-> "detect_labels", image |-> [Bytes |-> image_bytes], ok |-> ok]

\* detect_labels(Image={'S3Object': {'Bucket': ..., 'Name': ...}}, ...)
DetectEvent(ok) ==
    [op |-> "detect_labels",
     image |-> [S3Object |-> [Bucket |-> source_bucket, Name |-> source_key]],
     ok |-> ok]

\* detect_damage(s3_reference, source_type='s3'): detect_labels on the stored
\* object, then the damage filter; `if not damage_labels: damage_labels = []`.
DetectDamage ==
    /\ pc = "detect"
    /\ \E labels \in LabelResponses :
          /\ labels_response' = labels
          /\ damage_labels' = filter_damage_labels(labels)
    /\ calls' = Append(calls, DetectEvent(TRUE))
    /\ pc' = "generate"
    /\ UNCHANGED <<store, image_bytes, report, report_key, upload_success,
                   move_success, result, error>>
    /\ UNCHANGED pipe_frame
    /\ UNCHANGED gen_locals

detect_error_swallowed == FALSE

\* the except clauses of detect_damage end in `raise`
detect_error_reraised == TRUE

\* detect_labels raises: detect_damage logs and re-raises.
DetectDamageFails ==
    /\ pc = "detect"
    /\ calls' = Append(calls, DetectEvent(FALSE))
    /\ IF detect_error_reraised
       THEN /\ error' = [type |-> "ClientError", code |-> "InvalidImageFormatException", at |-> 0]
            /\ pc' = "raised"
       ELSE /\ pc' = "generate"
            /\ UNCHANGED error
    /\ UNCHANGED <<store, image_bytes, damage_labels, report, report_key,
                   upload_success, move_success, result>>
    /\ UNCHANGED labels_response
    /\ UNCHANGED pipe_frame
    /\ UNCHANGED gen_locals

\* if output_bucket and report
wants_save == Truthy(output_bucket) /\ Truthy(report)

\* The guard is false: nothing is written and report_key is never assigned.
SaveReportSkipped ==
    /\ pc = "save"
    /\ ~wants_save
    /\ pc' = "move"
    /\ UNCHANGED <<store, image_bytes, damage_labels, calls, report, report_key,
                   upload_success, move_success, result, error>>
    /\ UNCHANGED labels_response
    /\ UNCHANGED pipe_frame
    /\ UNCHANGED gen_locals

\* upload_text: put_object succeeds and True is returned.
UploadTextSucceeds ==
    /\ pc = "save"
    /\ wants_save
    /\ \E ts \in Timestamps :
          /\ report_key' = make_report_key(source_key, ts)
          /\ store' = PutObject(store, output_bucket, report_key', report)
          /\ calls' = Append(calls, S3Event("put_object", output_bucket, report_key', TRUE))
    /\ upload_success' = TRUE
    /\ pc' = "move"
    /\ UNCHANGED <<image_bytes, damage_labels, report, move_success, result, error>>
    /\ UNCHANGED labels_response
    /\ UNCHANGED pipe_frame
    /\ UNCHANGED gen_locals

\* upload_text: put_object raises, the error is logged and False is returned.
UploadTextFails ==
    /\ pc = "save"
    /\ wants_save
    /\ \E ts \in Timestamps :
          /\ report_key' = make_report_key(source_key, ts)
          /\ calls' = Append(calls, S3Event("put_object", output_bucket, report_key', FALSE))
    /\ upload_success' = FALSE
    /\ pc' = "move"
    /\ UNCHANGED <<store, image_bytes, damage_labels, report, move_success,
                   result, error>>
    /\ UNCHANGED labels_response
    /\ UNCHANGED pipe_frame
    /\ UNCHANGED gen_locals

move_frame == <<image_bytes, damage_labels, report, report_key, upload_success,
                result, error>>

move_file_error_result_true == TRUE

\* the except clause of move_file: return False
move_file_error_result == FALSE

\* move_file: copy_object and delete_object succeed, True is returned.
MoveFileSucceeds ==
    /\ pc = "move"
    /\ Present(store, source_bucket, source_key)
    /\ copy_accepted(source_key, make_processed_key(source_key))
    /\ LET dst == make_processed_key(source_key)
       IN  /\ store' = DeleteObject(CopyObject(store, source_bucket, source_key, dst),
                                    source_bucket, source_key)
           /\ calls' = calls \o
                 << S3Event("copy_object", source_bucket, dst, TRUE),
                    S3Event("delete_object", source_bucket, source_key, TRUE) >>
    /\ move_success' = TRUE
    /\ pc' = "assemble"
    /\ UNCHANGED move_frame
    /\ UNCHANGED labels_response
    /\ UNCHANGED pipe_frame
    /\ UNCHANGED gen_locals

after_failed_copy_deletes(log) ==
    Append(log, S3Event("delete_object", source_bucket, source_key, TRUE))

\* copy_object raised inside the try block: control is in the except clause
\* and the delete_object call of the block is skipped.
after_failed_copy(log) == log

\* move_file: copy_object raises, nothing changes, False is returned.
MoveFileCopyFails ==
    /\ pc = "move"
    /\ calls' = after_failed_copy(
                    Append(calls, S3Event("copy_object", source_bucket,
                                          make_processed_key(source_key), FALSE)))
    /\ move_success' = move_file_error_result
    /\ pc' = "assemble"
    /\ UNCHANGED store
    /\ UNCHANGED move_frame
    /\ UNCHANGED labels_response
    /\ UNCHANGED pipe_frame
    /\ UNCHANGED gen_locals

\* move_file: copy_object succeeds, delete_object raises, False is returned.
MoveFileDeleteFails ==
    /\ pc = "move"
    /\ Present(store, source_bucket, source_key)
    /\ copy_accepted(source_key, make_processed_key(source_key))
    /\ LET dst == make_processed_key(source_key)
       IN  /\ store' = CopyObject(store, source_bucket, source_key, dst)
           /\ calls' = calls \o
                 << S3Event("copy_object", source_bucket, dst, TRUE),
                    S3Event("delete_object", source_bucket, source_key, FALSE) >>
    /\ move_success' = move_file_error_result
    /\ pc' = "assemble"
    /\ UNCHANGED move_frame
    /\ UNCHANGED labels_response
    /\ UNCHANGED pipe_frame
    /\ UNCHANGED gen_locals

\* bool(report_key)
report_saved_flag(key) == key # EmptyKey

\* processed_key if move_success else None
processed_key_field(key, moved) == IF moved THEN make_processed_key(key) ELSE NoneKey

\* The result dictionary is built and returned.
ReturnResult ==
    /\ pc = "assemble"
    /\ report_key # UnboundKey
    /\ \E now \in Timestamps :
          result' = [ status |-> "result",
                      source_key |-> source_key,
                      processed_key |-> processed_key_field(source_key, move_success),
                      damage_labels |-> damage_labels,
                      report |-> report,
                      report_key |-> report_key,
                      timestamp |-> now,
                      processing_status |->
                          [ report_saved |-> report_saved_flag(report_key),
                            image_moved |-> move_success ] ]
    /\ pc' = "returned"
    /\ UNCHANGED <<store, image_bytes, damage_labels, calls, report, report_key,
                   upload_success, move_success, error>>
    /\ UNCHANGED labels_response
    /\ UNCHANGED pipe_frame
    /\ UNCHANGED gen_locals

\* report_key was never assigned: building the dictionary raises
\* UnboundLocalError, which process_single_image logs and re-raises.
ResultRaisesUnbound ==
    /\ pc = "assemble"
    /\ report_key = UnboundKey
    /\ error' = NameError("report_key")
    /\ pc' = "raised"
    /\ UNCHANGED <<store, image_bytes, damage_labels, calls, report, report_key,
                   upload_success, move_success, result>>
    /\ UNCHANGED labels_response
    /\ UNCHANGED pipe_frame
    /\ UNCHANGED gen_locals

(***************************************************************************)
(* app.lambda_handler around process_single_image.                         *)
(***************************************************************************)
MissingKey == << <<"<KeyError>">> >>        \* event without Records[0].s3.object.key
MalformedEvent == << <<"<IndexError>">> >>  \* event whose Records list is empty

\* event['Records'][0]['s3']['object']['key'], or how the lookup fails
EventKeys == SourceKeys \cup {EmptyKey, MissingKey, MalformedEvent}

\* os.getenv('OUTPUT_BUCKET', 'damage-analyzer1124-test')
EnvOutputBuckets == { "", "damage-analyzer1124-test" }

SUCCESS_STATUS_CODE == 200
ERROR_STATUS_CODE_OK == SUCCESS_STATUS_CODE
ERROR_STATUS_CODE == 500

create_error_response_without_text(prefix, e) ==
    [ statusCode |-> ERROR_STATUS_CODE,
      message |-> "Internal server error",
      detail |-> prefix,
      error |-> NoError ]

\* create_error_response(error_msg) with error_msg = f"{prefix}: {str(e)}"
create_error_response(prefix, e) ==
    [ statusCode |-> ERROR_STATUS_CODE,
      message |-> "Internal server error",
      detail |-> prefix,
      error |-> e ]

\* which except clause of lambda_handler handles e
except_prefix(e) ==
    IF e.type = "KeyError" THEN "Missing required configuration or service"
    ELSE IF e.type = "ValueError" THEN "Invalid input or configuration"
    ELSE "Unexpected error during execution"

\* The key lookup or the checks before process_single_image raise.
LambdaRejects ==
    /\ caller = "lambda_handler"
    /\ pc = "handler"
    /\ response = NoResponse
    /\ \/ /\ source_key = MissingKey
          /\ error' = ValueError("Unable to extract image key from event")
       \/ /\ source_key = MalformedEvent
          /\ error' = [type |-> "IndexError", msg |-> "list index out of range",
                       cause |-> NoError]
       \/ /\ source_key = EmptyKey
          /\ error' = ValueError("image key cannot be empty")
       \/ /\ source_key \in SourceKeys
          /\ ~Truthy(output_bucket)
          /\ error' = ValueError("SOURCE_BUCKET and OUTPUT_BUCKET environment variables must be set")
    /\ response' = create_error_response(except_prefix(error'), error')
    /\ UNCHANGED <<max_retries, base_delay, source_key, output_bucket, store, pc,
                   gen_pc, image_bytes, damage_labels, attempt, calls, report,
                   report_key, upload_success, move_success, result,
                   labels_response, caller, other>>

\* The checks pass: analyzer.process_single_image(...) is called.
LambdaCallsAnalyzer ==
    /\ caller = "lambda_handler"
    /\ pc = "handler"
    /\ response = NoResponse
    /\ source_key \in SourceKeys
    /\ Truthy(output_bucket)
    /\ pc' = "read"
    /\ UNCHANGED <<max_retries, base_delay, source_key, output_bucket, store,
                   gen_pc, image_bytes, damage_labels, attempt, calls, report,
                   report_key, upload_success, move_success, result, error,
                   labels_response, caller, response, other>>

\* process_single_image returned: the 200 response is built and returned.
LambdaSucceeds ==
    /\ caller = "lambda_handler"
    /\ pc = "returned"
    /\ response = NoResponse
    /\ response' = [ statusCode |-> SUCCESS_STATUS_CODE,
                     message |-> "Image analysis completed successfully",
                     detail |-> "",
                     error |-> NoError,
                     analysis_results |->
                         [ source_image |-> result.source_key,
                           damage_labels |-> result.damage_labels ] ]
    /\ UNCHANGED <<max_retries, base_delay, source_key, output_bucket, store, pc,
                   gen_pc, image_bytes, damage_labels, attempt, calls, report,
                   report_key, upload_success, move_success, result, error,
                   labels_response, caller, other>>

\* process_single_image raised: one of the except clauses answers.
LambdaFails ==
    /\ caller = "lambda_handler"
    /\ pc = "raised"
    /\ response = NoResponse
    /\ response' = create_error_response(except_prefix(error), error)
    /\ UNCHANGED <<max_retries, base_delay, source_key, output_bucket, store, pc,
                   gen_pc, image_bytes, damage_labels, attempt, calls, report,
                   report_key, upload_success, move_success, result, error,
                   labels_response, caller, other>>

Next ==
    \/ LambdaRejects
    \/ LambdaCallsAnalyzer
    \/ LambdaSucceeds
    \/ LambdaFails
    \/ ReadImage
    \/ ReadImageFails
    \/ DetectDamage
    \/ DetectDamageFails
    \/ GenerateReport
    \/ InvokeReturnsText
    \/ InvokeUnexpectedStructure
    \/ InvokeClientError
    \/ InvokeLocalError
    \/ LoopFallsThrough
    \/ SaveReportSkipped
    \/ UploadTextSucceeds
    \/ UploadTextFails
    \/ MoveFileSucceeds
    \/ MoveFileCopyFails
    \/ MoveFileDeleteFails
    \/ ReturnResult
    \/ ResultRaisesUnbound

\* BedrockService(client): the defaults of __init__
DefaultMaxRetries == 3
DefaultBaseDelay == 2

InitialStores ==
    { << >> } \cup
    { PutObject(<< >>, source_bucket, k, b) : k \in SourceKeys, b \in ImageBytes }

\* Either one direct call process_single_image(source_bucket, source_key,
\* output_bucket) on an analyzer whose BedrockService is constructed with any
\* max_retries up to the default and the default base_delay, or one call of
\* lambda_handler(event, context), whose initialize_services constructs
\* BedrockService(client) with the defaults.
Init ==
    /\ caller \in {"direct", "lambda_handler"}
    /\ base_delay = DefaultBaseDelay
    /\ IF caller = "direct"
       THEN /\ max_retries \in 0..DefaultMaxRetries
            /\ source_key \in SourceKeys
            /\ output_bucket \in OutputBuckets
            /\ pc = "read"
       ELSE /\ max_retries = DefaultMaxRetries
            /\ source_key \in EventKeys
            /\ output_bucket \in EnvOutputBuckets
            /\ pc = "handler"
    /\ store \in InitialStores
    /\ gen_pc = "idle"
    /\ image_bytes = EmptyBytes
    /\ damage_labels = << >>
    /\ attempt = 0
    /\ calls = << >>
    /\ report = None
    /\ report_key = UnboundKey
    /\ upload_success = FALSE
    /\ move_success = FALSE
    /\ result = [status |-> "none"]
    /\ error = NoError
    /\ labels_response = << >>
    /\ response = NoResponse
    /\ other = NoInvocation

Spec == Init /\ [][Next]_vars

(***************************************************************************)
(* S3Service.move_file called again and again with the same keys.          *)
(***************************************************************************)
StaleBytes == "JPEG-0"      \* what an older object at the destination key holds

ProcessedKeys == { make_processed_key(k) : k \in SourceKeys }

\* move_file(bucket, source_key, destination_key) has returned and is called
\* once more with the same arguments.
MoveFileAgain ==
    /\ pc = "assemble"
    /\ Len(SelectSeq(calls, LAMBDA ev : ev.op = "copy_object")) < MaxMoves
    /\ pc' = "move"
    /\ UNCHANGED <<store, calls, move_success>>
    /\ UNCHANGED move_frame
    /\ UNCHANGED labels_response
    /\ UNCHANGED pipe_frame
    /\ UNCHANGED gen_locals

MoveNext ==
    \/ MoveFileSucceeds
    \/ MoveFileCopyFails
    \/ MoveFileDeleteFails
    \/ MoveFileAgain

\* A first call move_file(source_bucket, source_key,
\* make_processed_key(source_key)) on a store that holds the source object
\* and may hold an older object at the destination key.  image_bytes keeps
\* the content the source object has at the first call.
MoveInit ==
    /\ max_retries = DefaultMaxRetries
    /\ base_delay = DefaultBaseDelay
    /\ source_key \in SourceKeys \cup ProcessedKeys
    /\ output_bucket = None
    /\ image_bytes \in ImageBytes
    /\ \E stale \in BOOLEAN :
          store = PutObject(IF stale
                            THEN PutObject(<< >>, source_bucket,
                                           make_processed_key(source_key), StaleBytes)
                            ELSE << >>,
                            source_bucket, source_key, image_bytes)
    /\ pc = "move"
    /\ gen_pc = "idle"
    /\ damage_labels = << >>
    /\ attempt = 0
    /\ calls = << >>
    /\ report = None
    /\ report_key = UnboundKey
    /\ upload_success = FALSE
    /\ move_success = FALSE
    /\ result = [status |-> "none"]
    /\ error = NoError
    /\ labels_response = << >>
    /\ caller = "direct"
    /\ response = NoResponse
    /\ other = NoInvocation

MoveSpec == MoveInit /\ [][MoveNext]_vars

(***************************************************************************)
(* Two invocations of process_single_image on one store.  Each has its own *)
(* locals; the store is all they share.  One of them runs and the other    *)
(* waits in `other`; they take turns between any two steps.                *)
(***************************************************************************)
MaxParLabels == 1

locals ==
    [ pc |-> pc, gen_pc |-> gen_pc, source_key |-> source_key,
      image_bytes |-> image_bytes, damage_labels |-> damage_labels,
      attempt |-> attempt, calls |-> calls, report |-> report,
      report_key |-> report_key, upload_success |-> upload_success,
      move_success |-> move_success, result |-> result, error |-> error,
      labels_response |-> labels_response ]

\* The running invocation is suspended and the other one goes on.
Switch ==
    /\ other # NoInvocation
    /\ other' = locals
    /\ pc' = other.pc
    /\ gen_pc' = other.gen_pc
    /\ source_key' = other.source_key
    /\ image_bytes' = other.image_bytes
    /\ damage_labels' = other.damage_labels
    /\ attempt' = other.attempt
    /\ calls' = other.calls
    /\ report' = other.report
    /\ report_key' = other.report_key
    /\ upload_success' = other.upload_success
    /\ move_success' = other.move_success
    /\ result' = other.result
    /\ error' = other.error
    /\ labels_response' = other.labels_response
    /\ UNCHANGED <<max_retries, base_delay, output_bucket, store, caller, response>>

\* detect_damage with a response of at most MaxParLabels labels
ParDetectDamage == DetectDamage /\ Len(labels_response') <= MaxParLabels

\* With max_retries = 1 the retry loop never runs out of iterations.
ParNext ==
    \/ Switch
    \/ ReadImage
    \/ ReadImageFails
    \/ ParDetectDamage
    \/ DetectDamageFails
    \/ GenerateReport
    \/ InvokeReturnsText
    \/ InvokeUnexpectedStructure
    \/ InvokeClientError
    \/ InvokeLocalError
    \/ SaveReportSkipped
    \/ UploadTextSucceeds
    \/ UploadTextFails
    \/ MoveFileSucceeds
    \/ MoveFileCopyFails
    \/ MoveFileDeleteFails
    \/ ReturnResult
    \/ ResultRaisesUnbound

FirstKey == << <<"damage_images">>, <<"car1.jpg">> >>

\* the source key of the second invocation: another directory with the same
\* or another basename, or an object that already lies under
\* damage_images/processed/
SecondKeys ==
    { << <<"uploads">>, <<"car1.jpg">> >>,
      << <<"uploads">>, <<"door.png">> >>,
      << <<"damage_images">>, <<"processed">>, <<"car1.jpg">> >> }

\* the content each source object has before the invocations
original_content(key) == IF key = FirstKey THEN "JPEG-1" ELSE "JPEG-2"

ParInit ==
    /\ max_retries = 1
    /\ base_delay = DefaultBaseDelay
    /\ output_bucket = "damage-analyzer1124-test"
    /\ source_key = FirstKey
    /\ pc = "read"
    /\ gen_pc = "idle"
    /\ image_bytes = EmptyBytes
    /\ damage_labels = << >>
    /\ attempt = 0
    /\ calls = << >>
    /\ report = None
    /\ report_key = UnboundKey
    /\ upload_success = FALSE
    /\ move_success = FALSE
    /\ result = [status |-> "none"]
    /\ error = NoError
    /\ labels_response = << >>
    /\ caller = "direct"
    /\ response = NoResponse
    /\ \E key2 \in SecondKeys :
          /\ other = [locals EXCEPT !.source_key = key2]
          /\ store = PutObject(PutObject(<< >>, source_bucket, FirstKey,
                                         original_content(FirstKey)),
                               source_bucket, key2, original_content(key2))

ParSpec == ParInit /\ [][ParNext]_vars

(***************************************************************************)
(* Properties of the retry engine (generate_report).                       *)
(***************************************************************************)
IsInvoke(ev) == ev.op = "invoke_model"
Raised(ev) == IsInvoke(ev) /\ ev.outcome.kind = "raise"
IsThrottling(e) == e.type = "ClientError" /\ e.code = "ThrottlingException"
Throttled(ev) == Raised(ev) /\ IsThrottling(ev.outcome.err)
OtherServiceError(ev) ==
    Raised(ev) /\ ev.outcome.err.type = "ClientError" /\ ~IsThrottling(ev.outcome.err)
KnownResponse(ev) ==
    IsInvoke(ev) /\ ev.outcome.kind = "response" /\ has_known_envelope(ev.outcome.body)
UnknownResponse(ev) ==
    IsInvoke(ev) /\ ev.outcome.kind = "response" /\ ~has_known_envelope(ev.outcome.body)

\* nothing of the retry loop (no sleep, no invoke_model) follows event i
LastOfLoop(i) ==
    \A j \in (i + 1)..Len(calls) : calls[j].op \notin {"invoke_model", "sleep"}

GenerationFailed == gen_pc = "raised" /\ error.type = "BedrockServiceError"

\* C1: an invoke_model attempt that fails with a service error other than
\* throttling ends the call at once with a generation failure: no sleep and
\* no further invoke_model follows it.
C1_NonThrottlingFailsAtOnce ==
    \A i \in 1..Len(calls) :
        OtherServiceError(calls[i]) => (LastOfLoop(i) /\ GenerationFailed)

\* C2: one generate_report call makes at most max_retries invoke_model calls.
C2_AtMostMaxRetriesCalls == Len(Invocations(calls)) <= max_retries

C2_Witness ==
    /\ max_retries >= 2
    /\ Len(Invocations(calls)) = max_retries
    /\ gen_pc = "raised"

\* C3: when all max_retries attempts (there is at least one) are throttled,
\* the call fails with a BedrockServiceError carrying the error of attempt
\* number max_retries, which is not the error of attempt 1.
C3_LastErrorSurfaced ==
    LET inv == Invocations(calls)
    IN  ( /\ max_retries >= 1
          /\ Len(inv) = max_retries
          /\ \A i \in 1..Len(inv) : Throttled(inv[i]) )
        => /\ GenerationFailed
           /\ error.cause = inv[max_retries].outcome.err
           /\ error.cause.at = max_retries
           /\ (max_retries > 1 => error.cause # inv[1].outcome.err)

C3_Witness ==
    LET inv == Invocations(calls)
    IN  /\ max_retries >= 2
        /\ Len(inv) = max_retries
        /\ \A i \in 1..Len(inv) : Throttled(inv[i])
        /\ GenerationFailed

\* C4: a response with a known envelope ends the call: the text under
\* 'messages' (or, without 'messages', under 'content') is returned and no
\* further invoke_model call or sleep follows.
C4_SuccessReturnsParsedText ==
    \A i \in 1..Len(calls) :
        KnownResponse(calls[i]) =>
            /\ LastOfLoop(i)
            /\ gen_pc = "returned"
            /\ LET body == calls[i].outcome.body
               IN  report = IF body.messages # Absent THEN body.messages
                            ELSE body.content

C4_Witness ==
    /\ Len(Invocations(calls)) >= 2
    /\ KnownResponse(calls[Len(calls)])
    /\ calls[Len(calls)].outcome.body.messages # Absent
    /\ calls[Len(calls)].outcome.body.content # Absent
    /\ calls[Len(calls)].outcome.body.messages # calls[Len(calls)].outcome.body.content
    /\ gen_pc = "returned"

\* C5: a response with neither envelope is a terminal failure: no further
\* invoke_model call follows it and the call fails.
C5_UnknownShapeIsTerminal ==
    \A i \in 1..Len(calls) :
        UnknownResponse(calls[i]) => (LastOfLoop(i) /\ GenerationFailed)

\* C6: for every positive base_delay the delays slept before consecutive
\* retries of one call are strictly increasing.
C6_BackoffStrictlyIncreasing ==
    LET sl == Sleeps(calls)
    IN  base_delay >= 1 =>
            \A n \in 1..(Len(sl) - 1) : sl[n].delay < sl[n + 1].delay

Attempting == gen_pc = "invoke" /\ in_range(attempt)
Succeeded == gen_pc = "returned" /\ report \in Texts
Failed == gen_pc = "raised"

\* C7: a generate_report call terminates: from Attempting(n) it reaches
\* Succeeded or Failed, and every call eventually ends.
C7_Terminates ==
    /\ <>(gen_pc \in {"returned", "raised"})
    /\ (Attempting ~> (Succeeded \/ Failed))

C7_Witness ==
    /\ Len(Invocations(calls)) = 3
    /\ Len(Sleeps(calls)) = 2
    /\ Succeeded

(***************************************************************************)
(* Properties of process_single_image.                                     *)
(***************************************************************************)
Ended == pc \in {"returned", "raised"}

UploadFailed == \E i \in 1..Len(calls) : calls[i].op = "put_object" /\ ~calls[i].ok
CopyFailed == \E i \in 1..Len(calls) : calls[i].op = "copy_object" /\ ~calls[i].ok
DeleteFailed == \E i \in 1..Len(calls) : calls[i].op = "delete_object" /\ ~calls[i].ok
Copied == \E i \in 1..Len(calls) : calls[i].op = "copy_object" /\ calls[i].ok
Deleted == \E i \in 1..Len(calls) : calls[i].op = "delete_object" /\ calls[i].ok

\* C8: when the report write fails (upload_text returned False) and the
\* relocation succeeds, the call still returns a result, with
\* report_saved = false and image_moved = true.
C8_FailedWriteIsRecorded ==
    (Ended /\ UploadFailed /\ Copied /\ Deleted) =>
        /\ pc = "returned"
        /\ result.processing_status.report_saved = FALSE
        /\ result.processing_status.image_moved = TRUE

\* C9: when the labeler succeeds and the filtered label set is empty, report
\* generation is entered and does not fail because of the empty labels, and
\* a returned result has damage_labels = [].
C9_EmptyLabelsDoNotFailGeneration ==
    (gen_pc # "idle" /\ damage_labels = << >>) =>
        /\ ~(gen_pc = "raised" /\ error.type = "ValueError")
        /\ (pc = "returned" => result.damage_labels = << >>)

\* C10: when retrieval, detection and generation succeeded (a report text
\* was returned) and move_file returned False, the call returns a result
\* with image_moved = false, processed_key = None and the computed
\* damage_labels and report.
C10_FailedMoveIsNonFatal ==
    (Ended /\ Succeeded /\ Truthy(report) /\ (CopyFailed \/ DeleteFailed)) =>
        /\ pc = "returned"
        /\ result.processing_status.image_moved = FALSE
        /\ result.processed_key = NoneKey
        /\ result.damage_labels = damage_labels
        /\ result.report = report

(***************************************************************************)
(* Properties of the pipeline as a whole and of lambda_handler.            *)
(***************************************************************************)
StoreOps == {"get_object", "put_object", "copy_object", "delete_object"}
CountOp(op) == Len(SelectSeq(calls, LAMBDA ev : ev.op = op))

\* every collaborator call of the log succeeded
AllCollaboratorsSucceeded ==
    \A i \in 1..Len(calls) :
        /\ (calls[i].op \in StoreOps \cup {"detect_labels"}) => calls[i].ok
        /\ IsInvoke(calls[i]) => KnownResponse(calls[i])

GeneratorSucceededFirst ==
    gen_pc = "returned" /\ Len(Invocations(calls)) = 1 /\ Len(Sleeps(calls)) = 0

CopyThenDelete ==
    \E i \in 1..(Len(calls) - 1) :
        calls[i].op = "copy_object" /\ calls[i + 1].op = "delete_object"

\* C11: when every collaborator call succeeds and the generator succeeds on
\* attempt 1, the call returns after exactly one report write and exactly one
\* move (one copy followed by one delete), with report_saved = true,
\* image_moved = true and a non-empty processed_key.
C11_AllSucceedOneWriteOneMove ==
    (Ended /\ AllCollaboratorsSucceeded /\ GeneratorSucceededFirst) =>
        /\ pc = "returned"
        /\ CountOp("put_object") = 1
        /\ CountOp("copy_object") = 1
        /\ CountOp("delete_object") = 1
        /\ CopyThenDelete
        /\ result.processing_status.report_saved = TRUE
        /\ result.processing_status.image_moved = TRUE
        /\ result.processed_key \notin {NoneKey, EmptyKey, UnboundKey}

AllAttemptsThrottled ==
    LET inv == Invocations(calls)
    IN  /\ max_retries = DefaultMaxRetries
        /\ Len(inv) = max_retries
        /\ \A i \in 1..Len(inv) : Throttled(inv[i])

NoResult == result = [status |-> "none"]
Responded == caller = "lambda_handler" /\ response # NoResponse

\* C12: when invoke_model is throttled on each of the 3 attempts
\* (max_retries = 3), generate_report fails with BedrockServiceError,
\* process_single_image raises it without a result, and lambda_handler
\* answers with statusCode 500 and a message carrying that error, whose
\* cause is the throttling error of attempt 3.
C12_ExhaustedRetriesGive500 ==
    AllAttemptsThrottled =>
        /\ GenerationFailed
        /\ error.msg = "Failed to invoke Bedrock model"
        /\ error.cause = Invocations(calls)[max_retries].outcome.err
        /\ pc = "raised"
        /\ NoResult
        /\ (caller = "lambda_handler" /\ response = NoResponse) => ENABLED LambdaFails
        /\ Responded =>
              /\ response.statusCode = 500
              /\ response.error = error
              /\ response.detail = "Unexpected error during execution"

C12_Witness ==
    /\ AllAttemptsThrottled
    /\ Responded
    /\ response.statusCode = 500

ReadFailed ==
    calls # << >> /\ calls[1].op = "get_object" /\ ~calls[1].ok
ReadEmpty ==
    /\ calls # << >> /\ calls[1].op = "get_object" /\ calls[1].ok
    /\ Present(store, source_bucket, source_key)
    /\ store[Obj(source_bucket, source_key)] = EmptyBytes

\* C13: when get_object fails or returns an empty payload, the call raises
\* (the S3 error, or ValueError "Failed to read image") and get_object is the
\* only collaborator call of the invocation: no detect_labels, invoke_model,
\* put_object, copy_object or delete_object.
C13_RetrievalFailureIsFatal ==
    (ReadFailed \/ ReadEmpty) =>
        /\ pc = "raised"
        /\ error = IF ReadEmpty THEN ValueError("Failed to read image")
                   ELSE S3Error(error.code)
        /\ Len(calls) = 1
        /\ gen_pc = "idle"
        /\ NoResult

C13_Witness ==
    /\ ReadEmpty
    /\ pc = "raised"
    /\ error.type = "ValueError"

DetectFailed ==
    \E i \in 1..Len(calls) : calls[i].op = "detect_labels" /\ ~calls[i].ok
DetectSucceeded ==
    \E i \in 1..Len(calls) : calls[i].op = "detect_labels" /\ calls[i].ok
NothingAfterDetect == calls[Len(calls)].op = "detect_labels"

\* C14: when detect_labels fails, the call raises that error and
\* generate_report, the report write and the move are never attempted; when
\* detect_labels succeeds, also with no damage label at all, no error is
\* raised by the detection step and the call goes on to generate_report with
\* the filtered labels (the empty list when there are none).
C14_DetectionFailureIsFatalEmptyIsNot ==
    /\ DetectFailed =>
          /\ pc = "raised"
          /\ error.type = "ClientError"
          /\ NothingAfterDetect
          /\ gen_pc = "idle"
          /\ NoResult
    /\ (DetectSucceeded /\ gen_pc = "idle") =>
          /\ pc = "generate"
          /\ error = NoError
          /\ NothingAfterDetect
          /\ ENABLED GenerateReport
          /\ (labels_response = << >> => damage_labels = << >>)

C14_Witness ==
    /\ DetectFailed
    /\ pc = "raised"

ReadSucceeded ==
    calls # << >> /\ calls[1].op = "get_object" /\ calls[1].ok /\ image_bytes # None

\* C15: whenever retrieval and detection succeeded, the call returns a
\* result built from the accumulated values, whatever happens in report
\* generation, report persistence and relocation.
C15_OnlyRetrieveAndDetectAreFatal ==
    (Ended /\ ReadSucceeded /\ DetectSucceeded) =>
        /\ pc = "returned"
        /\ result.damage_labels = damage_labels
        /\ result.report = report
        /\ result.processing_status.image_moved = move_success

InvalidRequest ==
    \/ source_key \in {EmptyKey, MissingKey, MalformedEvent}
    \/ ~Truthy(output_bucket)

\* C16: a request without a source key (none in the event, or an empty
\* one) or without an output bucket makes no collaborator call at all and,
\* once answered, has been rejected as invalid input, under lambda_handler
\* and under a direct process_single_image call.
C16_InvalidInputRejectedBeforeAnyCall ==
    InvalidRequest =>
        /\ calls = << >>
        /\ Responded =>
              /\ response.statusCode = 500
              /\ response.detail = "Invalid input or configuration"
        /\ (caller = "direct" /\ Ended) => (pc = "raised" /\ error.type = "ValueError")

\* lower-cased name contains a keyword of damage_keywords
matches_taxonomy(label) ==
    \E k \in 1..Len(damage_keywords) : contains(damage_keywords[k], lower(label.Name))

JustDetected == pc = "generate" /\ gen_pc = "idle"

\* C17: every label of the detect_labels response whose lower-cased name
\* contains a keyword of damage_keywords is among the damage labels that
\* detect_damage returns.
C17_NoMatchingLabelDropped ==
    JustDetected =>
        \A i \in 1..Len(labels_response) :
            matches_taxonomy(labels_response[i]) =>
                \E j \in 1..Len(damage_labels) : damage_labels[j] = labels_response[i]

RECURSIVE IsSubsequence(_, _)
IsSubsequence(a, b) ==
    IF a = << >> THEN TRUE
    ELSE IF b = << >> THEN FALSE
    ELSE IF Head(a) = Head(b) THEN IsSubsequence(Tail(a), Tail(b))
    ELSE IsSubsequence(a, Tail(b))

\* C18: the damage labels are a subsequence of the detect_labels response in
\* the same order (nothing added, duplicated or reordered; a label is never
\* dropped for its confidence: the labels kept and the labels dropped are
\* told apart by name alone), and the lower-cased name of every damage label
\* contains a taxonomy keyword.
C18_FilterIsOrderedSubsequence ==
    /\ JustDetected =>
          /\ IsSubsequence(damage_labels, labels_response)
          /\ \A i \in 1..Len(labels_response) :
                (\E j \in 1..Len(damage_labels) :
                     damage_labels[j].Name = labels_response[i].Name)
                => Len(SelectSeq(damage_labels, LAMBDA l : l = labels_response[i]))
                   = Len(SelectSeq(labels_response, LAMBDA l : l = labels_response[i]))
    /\ \A j \in 1..Len(damage_labels) : matches_taxonomy(damage_labels[j])

C18_Witness ==
    /\ JustDetected
    /\ Len(labels_response) = 2
    /\ Len(damage_labels) = 1
    /\ damage_labels[1] = labels_response[2]
    /\ damage_labels[1].Confidence < labels_response[1].Confidence

\* <dir>/processed/<basename>
sibling_processed_key(key) ==
    SubSeq(key, 1, Len(key) - 1) \o << <<"processed">>, key[Len(key)] >>

MoveAttempted == \E i \in 1..Len(calls) : calls[i].op = "copy_object"

\* C19 as stated: the copy destination, and processed_key of a result whose
\* move succeeded, is <dir>/processed/<basename> for a source key
\* <dir>/<basename>.
C19_DestinationIsSibling ==
    /\ \A i \in 1..Len(calls) :
          calls[i].op = "copy_object" => calls[i].key = sibling_processed_key(source_key)
    /\ (pc = "returned" /\ result.processing_status.image_moved)
          => result.processed_key = sibling_processed_key(source_key)

\* C19 amended: the copy destination, and processed_key of a result whose
\* move succeeded, is damage_images/processed/<basename> whatever the parent
\* path of the source key; it is the sibling key exactly when the source key
\* lies directly under damage_images/.
C19_DestinationIsFixedPrefix ==
    LET fixed == << <<"damage_images">>, <<"processed">>, source_key[Len(source_key)] >>
    IN  /\ \A i \in 1..Len(calls) :
              calls[i].op = "copy_object" =>
                  /\ calls[i].key = fixed
                  /\ (fixed = sibling_processed_key(source_key))
                        <=> (SubSeq(source_key, 1, Len(source_key) - 1) = << <<"damage_images">> >>)
        /\ (pc = "returned" /\ result.processing_status.image_moved)
              => result.processed_key = fixed

C19_Witness ==
    /\ pc = "returned"
    /\ result.processing_status.image_moved
    /\ source_key = << <<"uploads">>, <<"door.png">> >>
    /\ result.processed_key = << <<"damage_images">>, <<"processed">>, <<"door.png">> >>
    /\ Present(store, source_bucket, result.processed_key)

\* C20: when copy_object succeeded and delete_object failed, move_file
\* returned False: a returned result has image_moved = false and
\* processed_key = None, and no result reports a move whose source was not
\* deleted.
C20_CopyWithoutDeleteIsFailedMove ==
    /\ (Copied /\ DeleteFailed) =>
          /\ move_success = FALSE
          /\ pc = "returned" =>
                /\ result.processing_status.image_moved = FALSE
                /\ result.processed_key = NoneKey
    /\ (pc = "returned" /\ result.processing_status.image_moved) => Deleted

C20_Witness ==
    /\ pc = "returned"
    /\ Copied
    /\ DeleteFailed
    /\ result.processing_status.image_moved = FALSE
    /\ Present(store, source_bucket, source_key)
    /\ Present(store, source_bucket,
               << <<"damage_images">>, <<"processed">>, source_key[Len(source_key)] >>)

(***************************************************************************)
(* Further properties of the retry engine.                                 *)
(***************************************************************************)
LocalFailure(ev) == Raised(ev) /\ ev.outcome.err.type = "RuntimeError"

\* C25: an invoke_model attempt that raises a local (non-service) error is
\* counted as one attempt; before the last attempt it is not surfaced but
\* followed by a sleep and, after it, another attempt; on the last attempt
\* it ends the call, wrapped in BedrockServiceError("Unexpected error").
C25_LocalErrorIsRetried ==
    \A i \in 1..Len(calls) :
        LocalFailure(calls[i]) =>
            LET e == calls[i].outcome.err
                n == Len(Invocations(SubSeq(calls, 1, i)))
            IN  /\ e.at = n
                /\ IF n < max_retries
                   THEN /\ i < Len(calls)
                        /\ calls[i + 1].op = "sleep"
                        /\ ~(error.type = "BedrockServiceError" /\ error.cause = e)
                        /\ (i + 1 = Len(calls)) =>
                               (gen_pc = "invoke" /\ attempt = n /\ in_range(attempt))
                   ELSE /\ LastOfLoop(i)
                        /\ GenerationFailed
                        /\ error.msg = "Unexpected error"
                        /\ error.cause = e

C25_Witness ==
    LET inv == Invocations(calls)
    IN  /\ Len(inv) = 3
        /\ max_retries = 3
        /\ LocalFailure(inv[1])
        /\ LocalFailure(inv[3])
        /\ GenerationFailed
        /\ error.cause = inv[3].outcome.err

LoopEvents == SelectSeq(calls, LAMBDA ev : ev.op \in {"invoke_model", "sleep"})

\* C26: the events of the retry loop alternate invoke_model, sleep,
\* invoke_model, ...: one sleep between two consecutive attempts; a sleep
\* follows only an attempt that failed and was not the max_retries-th; a
\* call that ended after at least one attempt slept one time less than it
\* called invoke_model.
C26_SleepOnlyBetweenAttempts ==
    LET loop == LoopEvents
    IN  /\ \A i \in 1..Len(loop) :
              loop[i].op = IF i % 2 = 1 THEN "invoke_model" ELSE "sleep"
        /\ \A i \in 2..Len(loop) :
              loop[i].op = "sleep" =>
                  /\ ~KnownResponse(loop[i - 1])
                  /\ i \div 2 < max_retries
        /\ (gen_pc \in {"returned", "raised"} /\ Len(Invocations(calls)) >= 1) =>
              Len(Sleeps(calls)) = Len(Invocations(calls)) - 1

C26_Witness ==
    /\ gen_pc = "raised"
    /\ Len(Invocations(calls)) = 3
    /\ Len(Sleeps(calls)) = 2
    /\ calls[Len(calls)].op = "invoke_model"

\* C30: for every max_retries >= 0, when generate_report returns, it returns
\* the text parsed from a response of invoke_model that had a known
\* envelope; it never returns without such a response.
C30_ReturnsOnlyParsedText ==
    (max_retries >= 0 /\ gen_pc = "returned") =>
        LET inv == Invocations(calls)
        IN  /\ Len(inv) >= 1
            /\ KnownResponse(inv[Len(inv)])
            /\ report \in Texts

(***************************************************************************)
(* Further properties of lambda_handler and process_single_image.          *)
(***************************************************************************)
\* C23: lambda_handler answers every event with one response: until it has
\* answered it always has a step to take (no exception escapes), once it has
\* answered nothing further happens, the status code is 200 exactly when
\* process_single_image returned a result, and otherwise it is 500 with the
\* error in the message.
C23_OneStructuredResponse ==
    /\ (caller = "lambda_handler" /\ response = NoResponse) => ENABLED Next
    /\ Responded =>
          /\ ~ENABLED Next
          /\ response.statusCode \in {200, 500}
          /\ (response.statusCode = 200) <=> (pc = "returned" /\ ~NoResult)
          /\ (response.statusCode = 500) =>
                /\ response.message = "Internal server error"
                /\ response.error # NoError
                /\ response.error = error
          /\ (response.statusCode = 200) =>
                /\ response.error = NoError
                /\ response.analysis_results.source_image = source_key

C23_Witness ==
    /\ Responded
    /\ response.statusCode = 200
    /\ pc = "returned"
    /\ UploadFailed
    /\ CopyFailed

StepRank(op) ==
    CASE op = "get_object" -> 1
      [] op = "detect_labels" -> 2
      [] op \in {"invoke_model", "sleep"} -> 3
      [] op = "put_object" -> 4
      [] op = "copy_object" -> 5
      [] op = "delete_object" -> 6

\* C24: the collaborator calls of one invocation are made in the order
\* get_object, detect_labels (on the S3 object reference, not on bytes),
\* invoke_model (with its sleeps), put_object, copy_object, delete_object;
\* each of them except invoke_model at most once; detect_labels only after a
\* successful read, invoke_model only after a successful detection,
\* put_object and copy_object only after generate_report returned,
\* delete_object only after a successful copy.
C24_StepsInOrder ==
    /\ \A i \in 1..(Len(calls) - 1) :
          /\ StepRank(calls[i].op) <= StepRank(calls[i + 1].op)
          /\ (StepRank(calls[i].op) = StepRank(calls[i + 1].op))
                => StepRank(calls[i].op) = 3
    /\ \A i \in 1..Len(calls) :
          /\ calls[i].op = "detect_labels" =>
                /\ i = 2
                /\ calls[1].op = "get_object" /\ calls[1].ok
                /\ calls[i].image =
                      [S3Object |-> [Bucket |-> source_bucket, Name |-> source_key]]
          /\ IsInvoke(calls[i]) =>
                (i > 2 /\ calls[2].op = "detect_labels" /\ calls[2].ok)
          /\ calls[i].op \in {"put_object", "copy_object"} =>
                (gen_pc = "returned" /\ calls[2].op = "detect_labels" /\ calls[2].ok)
          /\ calls[i].op = "put_object" => Truthy(report)
          /\ calls[i].op = "delete_object" =>
                (calls[i - 1].op = "copy_object" /\ calls[i - 1].ok)

C24_Witness ==
    /\ pc = "returned"
    /\ Len(calls) = 8
    /\ calls[1].op = "get_object"
    /\ calls[2].op = "detect_labels"
    /\ calls[3].op = "invoke_model"
    /\ calls[4].op = "sleep"
    /\ calls[5].op = "invoke_model"
    /\ calls[6].op = "put_object"
    /\ calls[7].op = "copy_object"
    /\ calls[8].op = "delete_object"

StoreChanged ==
    \E i \in 1..Len(calls) :
        calls[i].op \in {"put_object", "copy_object", "delete_object"} /\ calls[i].ok

\* C28: whenever process_single_image raises, the invocation has changed
\* nothing in the store: no report was written and the source image was
\* neither copied nor deleted.
C28_FailureLeavesStoreUnchanged ==
    pc = "raised" => ~StoreChanged

\* C29: when copy_object fails inside move_file, delete_object is not
\* called, the source object stays in place with its content, no destination
\* object appears, and move_file returns False.
C29_NoDeleteAfterFailedCopy ==
    CopyFailed =>
        /\ CountOp("delete_object") = 0
        /\ Present(store, source_bucket, source_key)
        /\ store[Obj(source_bucket, source_key)] = image_bytes
        /\ ~Present(store, source_bucket,
                    << <<"damage_images">>, <<"processed">>, source_key[Len(source_key)] >>)
        /\ move_success = FALSE
        /\ pc = "returned" => result.processing_status.image_moved = FALSE

C29_Witness ==
    /\ CopyFailed
    /\ pc = "returned"
    /\ result.processing_status.image_moved = FALSE
    /\ result.processing_status.report_saved = TRUE
    /\ Present(store, source_bucket, source_key)

(***************************************************************************)
(* Properties of repeated move_file calls.                                 *)
(***************************************************************************)
destination_key == << <<"damage_images">>, <<"processed">>, source_key[Len(source_key)] >>

StoppedMove(i) ==
    /\ i < Len(calls)
    /\ calls[i].op = "copy_object" /\ calls[i].ok
    /\ calls[i + 1].op = "delete_object" /\ ~calls[i + 1].ok

CompletedMove(i) ==
    /\ i < Len(calls)
    /\ calls[i].op = "copy_object" /\ calls[i].ok
    /\ calls[i + 1].op = "delete_object" /\ calls[i + 1].ok

\* C21: after a move_file call that stopped between copy and delete, the
\* object is at both keys and the same call can be made again and succeed;
\* after a move_file call in which copy and delete succeeded (a first call
\* or a retry), True was returned, the destination holds the content the
\* source had and the source is gone, and further calls with the same keys
\* keep the destination content.
C21_MoveIsIdempotentByRetry ==
    /\ \A i \in 1..Len(calls) :
          (StoppedMove(i) /\ i + 1 = Len(calls)) =>
              /\ Present(store, source_bucket, source_key)
              /\ store[Obj(source_bucket, source_key)] = image_bytes
              /\ Present(store, source_bucket, destination_key)
              /\ store[Obj(source_bucket, destination_key)] = image_bytes
              /\ move_success = FALSE
              /\ pc = "move" => ENABLED MoveFileSucceeds
    /\ \A i \in 1..Len(calls) :
          CompletedMove(i) =>
              /\ Present(store, source_bucket, destination_key)
              /\ store[Obj(source_bucket, destination_key)] = image_bytes
              /\ ~Present(store, source_bucket, source_key)
              /\ (i + 1 = Len(calls)) => move_success = TRUE

C21_Witness ==
    /\ Len(calls) = 5
    /\ StoppedMove(1)
    /\ CompletedMove(3)
    /\ calls[5].op = "copy_object" /\ ~calls[5].ok
    /\ pc = "assemble"
    /\ StaleBytes \notin { store[o] : o \in DOMAIN store }
    /\ store[Obj(source_bucket, destination_key)] = image_bytes

(***************************************************************************)
(* Properties of two invocations on one store.                             *)
(***************************************************************************)
Invocations2 == {locals, other}

processed_key_of(key) == << <<"damage_images">>, <<"processed">>, key[Len(key)] >>

\* C22: for two invocations on two distinct source objects, under every
\* interleaving, an invocation that returned with its image moved finds its
\* own image under its processed key, and one that wrote its report finds
\* its own report under its report key: neither was overwritten or deleted
\* by the other invocation.
C22_InvocationsDoNotInterfere ==
    \A inv \in Invocations2 :
        inv.pc = "returned" =>
            /\ inv.move_success =>
                  /\ Present(store, source_bucket, inv.result.processed_key)
                  /\ store[Obj(source_bucket, inv.result.processed_key)]
                        = original_content(inv.source_key)
            /\ inv.upload_success =>
                  /\ Present(store, output_bucket, inv.report_key)
                  /\ store[Obj(output_bucket, inv.report_key)] = inv.report

\* C27: whatever the invocations and their move_file calls do and however
\* they fail, the content each source object had is stored under its source
\* key or under its processed key.
C27_ImageNeverLost ==
    \A inv \in Invocations2 :
        LET k == inv.source_key
            d == processed_key_of(k)
            c == original_content(k)
        IN  \/ Present(store, source_bucket, k) /\ store[Obj(source_bucket, k)] = c
            \/ Present(store, source_bucket, d) /\ store[Obj(source_bucket, d)] = c

====
